---- MODULE Spec2Model ----
(***************************************************************************)
(* Model of package envload (src/env.go): populateStruct and the          *)
(* fieldResolver it drives.  A string is a sequence of one-character       *)
(* strings, so that splitting, trimming and parsing are computed the way   *)
(* the Go standard library computes them.                                  *)
(***************************************************************************)
EXTENDS Integers, Sequences, FiniteSets, TLC

(***************************************************************************)
(* Bounds of the model.                                                    *)
(***************************************************************************)
\* Largest number of fields of a multi-field struct type explored by Init.
MaxFields == 2

(***************************************************************************)
(* Program constants.                                                      *)
(***************************************************************************)
keyValueSeparatorLimit == 2

errTargetMustBePointer == "target must be a pointer"
errTargetMustBePointerToStruct == "target must be a pointer to struct"
errInvalidMapFormat == "invalid map format for field"
errUnsupportedMapValueType == "unsupported map value type"
errMissingRequiredField == "missing required field"

(***************************************************************************)
(* package strings                                                         *)
(***************************************************************************)
\* unicode.IsSpace restricted to ASCII (the model's alphabet is ASCII).
IsSpace(c) == c \in {" ", "\t", "\n", "\f", "\r"}

\* The index of the last c of s instead of the first.
IndexByte_Last(s, c) ==
    IF \E k \in 1..Len(s) : s[k] = c
    THEN CHOOSE k \in 1..Len(s) : s[k] = c /\ \A j \in (k + 1)..Len(s) : s[j] # c
    ELSE 0

\* strings.IndexByte, 1-based; 0 when c does not occur in s.
IndexByte(s, c) ==
    IF \E k \in 1..Len(s) : s[k] = c
    THEN CHOOSE k \in 1..Len(s) : s[k] = c /\ \A j \in 1..(k - 1) : s[j] # c
    ELSE 0

\* strings.SplitN(s, sep, n) for a one-byte separator and n > 0: at most n
\* substrings, the last one being the unsplit remainder.
RECURSIVE SplitN(_, _, _)
SplitN(s, c, n) ==
    LET k == IndexByte(s, c) IN
    IF n = 1 \/ k = 0
    THEN <<s>>
    ELSE <<SubSeq(s, 1, k - 1)>> \o SplitN(SubSeq(s, k + 1, Len(s)), c, n - 1)

\* strings.Split(s, sep) for a one-byte separator: every occurrence splits.
Split(s, c) == SplitN(s, c, Len(s) + 1)

RECURSIVE TrimLeftSpace(_)
TrimLeftSpace(s) ==
    IF s # <<>> /\ IsSpace(Head(s)) THEN TrimLeftSpace(Tail(s)) ELSE s

RECURSIVE TrimRightSpace(_)
TrimRightSpace(s) ==
    IF s # <<>> /\ IsSpace(s[Len(s)])
    THEN TrimRightSpace(SubSeq(s, 1, Len(s) - 1))
    ELSE s

\* strings.TrimSpace
TrimSpace(s) == TrimRightSpace(TrimLeftSpace(s))

(***************************************************************************)
(* package strconv.  A parse result is [ok, val, cause]; cause is the      *)
(* text of strconv.ErrSyntax or strconv.ErrRange.                          *)
(***************************************************************************)
ErrSyntax == "invalid syntax"
ErrRange == "value out of range"

ParseOk(v) == [ok |-> TRUE, val |-> v, cause |-> ""]
ParseFail(zero, cause) == [ok |-> FALSE, val |-> zero, cause |-> cause]

DecDigits == <<"0", "1", "2", "3", "4", "5", "6", "7", "8", "9">>
IsDigit(c) == \E d \in 1..10 : DecDigits[d] = c
DigitVal(c) == (CHOOSE d \in 1..10 : DecDigits[d] = c) - 1

RECURSIVE DecValue(_)
DecValue(s) ==
    IF s = <<>> THEN 0
    ELSE 10 * DecValue(SubSeq(s, 1, Len(s) - 1)) + DigitVal(s[Len(s)])

\* Widths of 32 bits and more are not range-checked: every literal of the
\* model's pools denotes a number below 2^31.
MaxUintOf(bitSize) == 2 ^ bitSize - 1
CutoffOf(bitSize) == 2 ^ (bitSize - 1)
Checked(bitSize) == bitSize < 32

\* strconv.ParseUint(s, 10, bitSize): digits only, no sign, no underscore.
ParseUint(s, bitSize) ==
    IF s = <<>> \/ \E k \in 1..Len(s) : ~IsDigit(s[k])
    THEN ParseFail(0, ErrSyntax)
    ELSE LET v == DecValue(s) IN
         IF Checked(bitSize) /\ v > MaxUintOf(bitSize)
         THEN ParseFail(MaxUintOf(bitSize), ErrRange)
         ELSE ParseOk(v)

\* strconv.ParseInt(s, 10, bitSize): an optional sign, then ParseUint.
ParseInt(s, bitSize) ==
    IF s = <<>> THEN ParseFail(0, ErrSyntax)
    ELSE LET neg == s[1] = "-"
             rest == IF s[1] \in {"+", "-"} THEN Tail(s) ELSE s
             un == ParseUint(rest, bitSize)
         IN  IF ~un.ok THEN ParseFail(0, un.cause)
             ELSE IF Checked(bitSize) /\ ~neg /\ un.val >= CutoffOf(bitSize)
             THEN ParseFail(CutoffOf(bitSize) - 1, ErrRange)
             ELSE IF Checked(bitSize) /\ neg /\ un.val > CutoffOf(bitSize)
             THEN ParseFail(-CutoffOf(bitSize), ErrRange)
             ELSE ParseOk(IF neg THEN -un.val ELSE un.val)

\* strconv.ParseBool
ParseBool(s) ==
    IF s \in {<<"1">>, <<"t">>, <<"T">>, <<"T", "R", "U", "E">>,
              <<"t", "r", "u", "e">>, <<"T", "r", "u", "e">>}
    THEN ParseOk(TRUE)
    ELSE IF s \in {<<"0">>, <<"f">>, <<"F">>, <<"F", "A", "L", "S", "E">>,
                   <<"f", "a", "l", "s", "e">>, <<"F", "a", "l", "s", "e">>}
    THEN ParseOk(FALSE)
    ELSE ParseFail(FALSE, ErrSyntax)

\* strconv.ParseFloat on the plain decimal forms [sign] digits [. digits]
\* (at least one digit).  The value m / 10^e is the pair <<m, e>> with no
\* trailing zero in the fraction.  The pools of the model hold no exponent,
\* hexadecimal, infinity or NaN literal; rounding to the width is left out.
RECURSIVE NormFloat(_, _)
NormFloat(m, e) ==
    IF m = 0 THEN <<0, 0>>
    ELSE IF e > 0 /\ m % 10 = 0 THEN NormFloat(m \div 10, e - 1)
    ELSE <<m, e>>

ParseFloat(s, bitSize) ==
    IF s = <<>> THEN ParseFail(<<0, 0>>, ErrSyntax)
    ELSE LET neg == s[1] = "-"
             body == IF s[1] \in {"+", "-"} THEN Tail(s) ELSE s
             dot == IndexByte(body, ".")
             int == IF dot = 0 THEN body ELSE SubSeq(body, 1, dot - 1)
             frac == IF dot = 0 THEN <<>> ELSE SubSeq(body, dot + 1, Len(body))
             digits == int \o frac
         IN  IF digits = <<>> \/ \E k \in 1..Len(digits) : ~IsDigit(digits[k])
             THEN ParseFail(<<0, 0>>, ErrSyntax)
             ELSE LET m == DecValue(digits) IN
                  ParseOk(NormFloat(IF neg THEN -m ELSE m, Len(frac)))

(***************************************************************************)
(* package time.  ParseDuration on the forms [sign] (digits unit)+ with    *)
(* the units s, m and h, and "0".  The value is the count of seconds: the  *)
(* code stores the count of nanoseconds, that count times 10^9.            *)
(***************************************************************************)
ErrDuration == "invalid duration"

UnitSeconds(u) ==
    IF u = <<"s">> THEN 1 ELSE IF u = <<"m">> THEN 60 ELSE IF u = <<"h">> THEN 3600 ELSE 0

\* Length of the longest prefix of s made of digits (isDigit TRUE) or of
\* non-digits (isDigit FALSE).
RECURSIVE RunLen(_, _)
RunLen(s, isDigit) ==
    IF s # <<>> /\ IsDigit(Head(s)) = isDigit THEN 1 + RunLen(Tail(s), isDigit) ELSE 0

RECURSIVE DurationGroups(_)
DurationGroups(s) ==
    IF s = <<>> THEN ParseOk(0)
    ELSE LET n == RunLen(s, TRUE)
             u == RunLen(SubSeq(s, n + 1, Len(s)), FALSE)
             unit == SubSeq(s, n + 1, n + u)
             rest == DurationGroups(SubSeq(s, n + u + 1, Len(s)))
         IN  IF n = 0 \/ UnitSeconds(unit) = 0 \/ ~rest.ok
             THEN ParseFail(0, ErrDuration)
             ELSE ParseOk(DecValue(SubSeq(s, 1, n)) * UnitSeconds(unit) + rest.val)

ParseDuration(s) ==
    IF s = <<>> THEN ParseFail(0, ErrDuration)
    ELSE LET neg == s[1] = "-"
             body == IF s[1] \in {"+", "-"} THEN Tail(s) ELSE s
             g == DurationGroups(body)
         IN  IF body = <<"0">> THEN ParseOk(0)
             ELSE IF body = <<>> \/ ~g.ok THEN ParseFail(0, ErrDuration)
             ELSE ParseOk(IF neg THEN -g.val ELSE g.val)

(***************************************************************************)
(* package reflect: types, values and assignability.                       *)
(*                                                                         *)
(* A type is [kind, bits, pkg, name] plus elem for a slice and key, elem   *)
(* for a map.  pkg is the PkgPath: "" for a predeclared or unnamed type.   *)
(***************************************************************************)
Scalar(kind, bits, pkg, name) == [kind |-> kind, bits |-> bits, pkg |-> pkg, name |-> name]
SliceOf(elem, pkg, name) ==
    [kind |-> "slice", bits |-> 0, pkg |-> pkg, name |-> name, elem |-> elem]
MapOf(key, elem, pkg, name) ==
    [kind |-> "map", bits |-> 0, pkg |-> pkg, name |-> name, key |-> key, elem |-> elem]

StringT == Scalar("string", 0, "", "string")
BoolT == Scalar("bool", 0, "", "bool")
Int64T == Scalar("int", 64, "", "int64")
Uint64T == Scalar("uint", 64, "", "uint64")
Float64T == Scalar("float", 64, "", "float64")
StringSliceT == SliceOf(StringT, "", "")

\* Type.AssignableTo as reflect.Value.Set and SetMapIndex apply it: the
\* types are identical, or their underlying types are and one of the two is
\* not a named type.  Underlying(t), of a slice or map type, forgets its name.
Underlying(t) == [t EXCEPT !.pkg = "", !.name = ""]
IsNamed(t) == t.name # ""
AssignableTo(v, t) ==
    \/ v = t
    \/ /\ t.kind \in {"slice", "map"}
       /\ v.kind = t.kind
       /\ ~(IsNamed(v) /\ IsNamed(t))
       /\ Underlying(v) = Underlying(t)

\* The zero value of a type.  A slice is [nil, elems], a map is [nil, pairs]
\* with pairs the set of <<key, value>>.
ZeroValue(t) ==
    CASE t.kind = "string" -> <<>>
      [] t.kind \in {"int", "uint"} -> 0
      [] t.kind = "float" -> <<0, 0>>
      [] t.kind = "bool" -> FALSE
      [] t.kind = "slice" -> [nil |-> TRUE, elems |-> <<>>]
      [] t.kind = "map" -> [nil |-> TRUE, pairs |-> {}]
      [] OTHER -> "zero"

\* Value.Convert between integer types: the low bits of the value, read as
\* signed or unsigned.
ConvertInt(v, t) ==
    IF ~Checked(t.bits) THEN v
    ELSE IF t.kind = "uint" THEN v % (2 ^ t.bits)
    ELSE ((v + CutoffOf(t.bits)) % (2 ^ t.bits)) - CutoffOf(t.bits)

(***************************************************************************)
(* Errors.  An error is [msg, field, env, index, key, token, cause]; the   *)
(* parts a message does not print are left empty.                          *)
(***************************************************************************)
Err(msg, field, env, index, key, token, cause) ==
    [msg |-> msg, field |-> field, env |-> env, index |-> index,
     key |-> key, token |-> token, cause |-> cause]
Nil == Err("", "", "", -1, <<>>, <<>>, "")

\* What a setter did: it panicked, returned an error, or returned nil having
\* stored val in the field (set) or not.  What a setter stored before it
\* returned an error stays in the field.
Wrote(v) == [panic |-> FALSE, err |-> Nil, set |-> TRUE, val |-> v]
Skipped == [panic |-> FALSE, err |-> Nil, set |-> FALSE, val |-> <<>>]
Failed(e) == [panic |-> FALSE, err |-> e, set |-> FALSE, val |-> <<>>]
Panicked == [panic |-> TRUE, err |-> Nil, set |-> FALSE, val |-> <<>>]

(***************************************************************************)
(* fieldResolver.  A struct field f is [name, env, default, required,      *)
(* exported, type]: env, default and required are what Tag.Get returns     *)
(* ("" when the tag is absent).  The slot of a field of the struct a       *)
(* pointer leads to is addressable, so CanSet is "the field is exported".  *)
(***************************************************************************)
CanSet(f) == f.exported

\* isRequired that never requires a field.
isRequired_Never(f) == FALSE

\* isRequired checks if a field has the required tag set to true.
isRequired(f) == f.required = "true"

\* setString sets a plain string value.
setString(f, rawValue) == Wrote(rawValue)

\* setDuration parses and sets a time.Duration value from a string.
setDuration(f, rawValue) ==
    LET dur == ParseDuration(rawValue) IN
    IF ~dur.ok
    THEN Failed(Err("invalid duration for field", f.name, "", -1, <<>>, <<>>, dur.cause))
    ELSE Wrote(dur.val)

\* setInt that parses with bitSize 64 and stores the low bits of the value.
setInt_Wraps(f, rawValue) ==
    LET intVal == ParseInt(rawValue, 64) IN
    IF ~intVal.ok
    THEN Failed(Err("invalid int for field", f.name, "", -1, <<>>, <<>>, intVal.cause))
    ELSE Wrote(ConvertInt(intVal.val, f.type))

\* setInt that drops the parse error and leaves the field alone.
setInt_SwallowsError(f, rawValue) ==
    LET intVal == ParseInt(rawValue, f.type.bits) IN
    IF ~intVal.ok THEN Skipped ELSE Wrote(intVal.val)

\* setInt parses and sets an integer value of the width of the field's type.
setInt(f, rawValue) ==
    LET intVal == ParseInt(rawValue, f.type.bits) IN
    IF ~intVal.ok
    THEN Failed(Err("invalid int for field", f.name, "", -1, <<>>, <<>>, intVal.cause))
    ELSE Wrote(intVal.val)

\* setIntOrDuration sets an integer or time.Duration.
setIntOrDuration(f, rawValue) ==
    IF f.type.pkg = "time" /\ f.type.name = "Duration"
    THEN setDuration(f, rawValue)
    ELSE setInt(f, rawValue)

\* setUint sets an unsigned integer value.
setUint(f, rawValue) ==
    LET uintVal == ParseUint(rawValue, f.type.bits) IN
    IF ~uintVal.ok
    THEN Failed(Err("invalid uint for field", f.name, "", -1, <<>>, <<>>, uintVal.cause))
    ELSE Wrote(uintVal.val)

\* setFloat sets a float value (float32 or float64).
setFloat(f, rawValue) ==
    LET floatVal == ParseFloat(rawValue, f.type.bits) IN
    IF ~floatVal.ok
    THEN Failed(Err("invalid float for field", f.name, "", -1, <<>>, <<>>, floatVal.cause))
    ELSE Wrote(floatVal.val)

\* setBool sets a boolean value.
setBool(f, rawValue) ==
    LET boolVal == ParseBool(rawValue) IN
    IF ~boolVal.ok
    THEN Failed(Err("invalid bool for field", f.name, "", -1, <<>>, <<>>, boolVal.cause))
    ELSE Wrote(boolVal.val)

\* validParts that keeps the empty parts.
validPartsOf_All(parts) == parts

\* The parts that are not empty, in order (the validParts of the slice setters).
validPartsOf(parts) == SelectSeq(parts, LAMBDA part : part # <<>>)

\* The loop of the slice setters, storing the elements parsed so far in the
\* field when a part fails.
sliceOfParsed_StoresPrefix(f, parsed, msg) ==
    LET bad == {k \in 1..Len(parsed) : ~parsed[k].ok} IN
    IF bad # {}
    THEN LET k == CHOOSE b \in bad : \A c \in bad : b <= c IN
         [panic |-> FALSE,
          err |-> Err(msg, f.name, "", k - 1, <<>>, <<>>, parsed[k].cause),
          set |-> TRUE,
          val |-> [nil |-> FALSE, elems |-> [j \in 1..(k - 1) |-> parsed[j].val]]]
    ELSE Wrote([nil |-> FALSE, elems |-> [k \in 1..Len(parsed) |-> parsed[k].val]])

\* The loop shared by setIntSlice, setUintSlice, setFloatSlice and
\* setBoolSlice: parsed[k] is the parse of validParts[k]; the first part that
\* fails returns the error with its index, otherwise the slice is stored.
sliceOfParsed(f, parsed, msg) ==
    LET bad == {k \in 1..Len(parsed) : ~parsed[k].ok} IN
    IF bad # {}
    THEN LET k == CHOOSE b \in bad : \A c \in bad : b <= c IN
         Failed(Err(msg, f.name, "", k - 1, <<>>, <<>>, parsed[k].cause))
    ELSE Wrote([nil |-> FALSE, elems |-> [k \in 1..Len(parsed) |-> parsed[k].val]])

\* setIntSlice that reports the index a failing part has among all parts.
setIntSlice_IndexInParts(f, parts) ==
    LET bad == {k \in 1..Len(parts) :
                    parts[k] # <<>> /\ ~ParseInt(parts[k], f.type.elem.bits).ok}
        validParts == validPartsOf(parts)
        parsed == [k \in 1..Len(validParts) |-> ParseInt(validParts[k], f.type.elem.bits)]
    IN  IF bad # {}
        THEN LET k == CHOOSE b \in bad : \A c \in bad : b <= c IN
             Failed(Err("invalid int in slice for field", f.name, "", k - 1, <<>>, <<>>,
                        ParseInt(parts[k], f.type.elem.bits).cause))
        ELSE sliceOfParsed(f, parsed, "invalid int in slice for field")

\* setIntSlice converts string parts to integers and sets the slice.
setIntSlice(f, parts) ==
    LET validParts == validPartsOf(parts)
        parsed == [k \in 1..Len(validParts) |-> ParseInt(validParts[k], f.type.elem.bits)]
    IN  sliceOfParsed(f, parsed, "invalid int in slice for field")

\* setUintSlice converts string parts to unsigned integers and sets the slice.
setUintSlice(f, parts) ==
    LET validParts == validPartsOf(parts)
        parsed == [k \in 1..Len(validParts) |-> ParseUint(validParts[k], f.type.elem.bits)]
    IN  sliceOfParsed(f, parsed, "invalid uint in slice for field")

\* setFloatSlice converts string parts to floats and sets the slice.
setFloatSlice(f, parts) ==
    LET validParts == validPartsOf(parts)
        parsed == [k \in 1..Len(validParts) |-> ParseFloat(validParts[k], f.type.elem.bits)]
    IN  sliceOfParsed(f, parsed, "invalid float in slice for field")

\* setBoolSlice converts string parts to booleans and sets the slice.
setBoolSlice(f, parts) ==
    LET validParts == validPartsOf(parts)
        parsed == [k \in 1..Len(validParts) |-> ParseBool(validParts[k])]
    IN  sliceOfParsed(f, parsed, "invalid bool in slice for field")

\* setSlice sets a slice by splitting on commas and converting to the element
\* type.  For a string element kind the []string of trimmed parts is stored
\* with Value.Set, which panics unless []string is assignable to the field's
\* type.
setSlice(f, rawValue) ==
    LET elemKind == f.type.elem.kind
        split == Split(rawValue, ",")
        parts == [k \in 1..Len(split) |-> TrimSpace(split[k])]
    IN  CASE elemKind = "string" ->
                IF AssignableTo(StringSliceT, f.type)
                THEN Wrote([nil |-> FALSE, elems |-> parts])
                ELSE Panicked
          [] elemKind = "int" -> setIntSlice(f, parts)
          [] elemKind = "uint" -> setUintSlice(f, parts)
          [] elemKind = "float" -> setFloatSlice(f, parts)
          [] elemKind = "bool" -> setBoolSlice(f, parts)
          [] OTHER -> Skipped

\* convertMapValue converts a string value to the map's value type.  The
\* result is [ok, val, type, cause]: type is the type of the reflect.Value
\* returned (the numeric kinds are converted to the map's element type, a
\* string and a bool are not).
convertMapValue(f, value, valueKind) ==
    CASE valueKind = "string" ->
            [ok |-> TRUE, val |-> value, type |-> StringT, cause |-> ""]
      [] valueKind = "int" ->
            LET intVal == ParseInt(value, 64) IN
            [ok |-> intVal.ok, val |-> ConvertInt(intVal.val, f.type.elem),
             type |-> f.type.elem, cause |-> intVal.cause]
      [] valueKind = "uint" ->
            LET uintVal == ParseUint(value, 64) IN
            [ok |-> uintVal.ok, val |-> ConvertInt(uintVal.val, f.type.elem),
             type |-> f.type.elem, cause |-> uintVal.cause]
      [] valueKind = "float" ->
            LET floatVal == ParseFloat(value, 64) IN
            [ok |-> floatVal.ok, val |-> floatVal.val,
             type |-> f.type.elem, cause |-> floatVal.cause]
      [] valueKind = "bool" ->
            LET boolVal == ParseBool(value) IN
            [ok |-> boolVal.ok, val |-> boolVal.val, type |-> BoolT, cause |-> boolVal.cause]
      [] OTHER ->
            [ok |-> FALSE, val |-> 0, type |-> StringT, cause |-> errUnsupportedMapValueType]

\* SetMapIndex that keeps the value a key already has.
SetMapIndex_FirstWins(result, key, val) ==
    IF \E p \in result : p[1] = key THEN result ELSE result \cup {<<key, val>>}

\* Value.SetMapIndex on the set of <<key, value>> pairs.
SetMapIndex(result, key, val) == {p \in result : p[1] # key} \cup {<<key, val>>}

\* The loop of setMap over pairs[k..], result being the map built so far.
RECURSIVE setMapPairs(_, _, _, _)
setMapPairs(f, pairs, k, result) ==
    IF k > Len(pairs) THEN Wrote([nil |-> FALSE, pairs |-> result])
    ELSE LET pair == pairs[k]
             kv == SplitN(TrimSpace(pair), ":", keyValueSeparatorLimit)
         IN  IF Len(kv) # keyValueSeparatorLimit
             THEN Failed(Err(errInvalidMapFormat, f.name, "", -1, <<>>, pair, ""))
             ELSE LET key == TrimSpace(kv[1])
                      value == TrimSpace(kv[2])
                      convertedValue == convertMapValue(f, value, f.type.elem.kind)
                  IN  IF ~convertedValue.ok
                      THEN Failed(Err("invalid map value for field", f.name, "", -1,
                                      key, <<>>, convertedValue.cause))
                      ELSE IF ~AssignableTo(StringT, f.type.key)
                              \/ ~AssignableTo(convertedValue.type, f.type.elem)
                      THEN Panicked
                      ELSE setMapPairs(f, pairs, k + 1,
                                       SetMapIndex(result, key, convertedValue.val))

\* setMap that passes over the pairs without a colon.
setMap_SkipsMalformed(f, rawValue) ==
    IF f.type.key.kind # "string" THEN Skipped
    ELSE setMapPairs(f, SelectSeq(Split(rawValue, ","),
                                  LAMBDA pair : IndexByte(pair, ":") # 0), 1, {})

\* setMap without the check of the key kind.
setMap_NoKeyCheck(f, rawValue) == setMapPairs(f, Split(rawValue, ","), 1, {})

\* setMap that passes over a map whose value kind convertMapValue rejects.
setMap_SkipsUnsupported(f, rawValue) ==
    IF f.type.key.kind # "string"
       \/ f.type.elem.kind \notin {"string", "int", "uint", "float", "bool"}
    THEN Skipped
    ELSE setMapPairs(f, Split(rawValue, ","), 1, {})

\* setMap sets a map by parsing comma-separated key:value pairs.
setMap(f, rawValue) ==
    IF f.type.key.kind # "string" THEN Skipped
    ELSE setMapPairs(f, Split(rawValue, ","), 1, {})

\* setValue sets rawValue into the field based on its kind and type.
setValue(f, rawValue) ==
    CASE f.type.kind = "string" -> setString(f, rawValue)
      [] f.type.kind = "int" -> setIntOrDuration(f, rawValue)
      [] f.type.kind = "uint" -> setUint(f, rawValue)
      [] f.type.kind = "float" -> setFloat(f, rawValue)
      [] f.type.kind = "bool" -> setBool(f, rawValue)
      [] f.type.kind = "slice" -> setSlice(f, rawValue)
      [] f.type.kind = "map" -> setMap(f, rawValue)
      [] OTHER -> Skipped

\* validateStruct without the check of what the pointer leads to.
validateStruct_NoElemCheck(tgt) ==
    IF tgt.kind # "ptr" THEN Err(errTargetMustBePointer, "", "", -1, <<>>, <<>>, "")
    ELSE Nil

\* validateStruct validates that the target is a pointer to a struct.  A
\* target is [kind, elem]: the Kind of reflect.ValueOf(target) and of its
\* Elem() (Invalid for the Elem of a nil pointer).
validateStruct(tgt) ==
    IF tgt.kind # "ptr" THEN Err(errTargetMustBePointer, "", "", -1, <<>>, <<>>, "")
    ELSE IF tgt.elem # "struct"
    THEN Err(errTargetMustBePointerToStruct, "", "", -1, <<>>, <<>>, "")
    ELSE Nil

\* resolveValue that falls back to the default when the value found is empty.
resolveValue_EmptyFallsBack(res, f, m) ==
    LET envKey == f.env IN
    IF envKey = "" \/ ~CanSet(f)
    THEN [rawValue |-> <<>>, looked |-> {}]
    ELSE [rawValue |-> IF envKey \in DOMAIN m /\ m[envKey] # <<>> THEN m[envKey] ELSE f.default,
          looked |-> {envKey}]

\* resolveValue that never uses the default.
resolveValue_NoDefault(res, f, m) ==
    LET envKey == f.env IN
    IF envKey = "" \/ ~CanSet(f)
    THEN [rawValue |-> <<>>, looked |-> {}]
    ELSE [rawValue |-> IF envKey \in DOMAIN m THEN m[envKey] ELSE <<>>,
          looked |-> {envKey}]

\* resolveValue that takes the default whenever one is declared.
resolveValue_PrefersDefault(res, f, m) ==
    LET envKey == f.env IN
    IF envKey = "" \/ ~CanSet(f)
    THEN [rawValue |-> <<>>, looked |-> {}]
    ELSE [rawValue |-> IF envKey \in DOMAIN m /\ f.default = <<>> THEN m[envKey] ELSE f.default,
          looked |-> {envKey}]

\* resolveValue that does not reset rawValue: a skipped field is left with
\* the raw value of the field before it.
resolveValue_CarriesOver(res, f, m) ==
    LET envKey == f.env IN
    IF envKey = "" \/ ~CanSet(f)
    THEN [rawValue |-> res.rawValue, looked |-> {}]
    ELSE [rawValue |-> IF envKey \in DOMAIN m THEN m[envKey] ELSE f.default,
          looked |-> {envKey}]

\* resolveValue without the CanSet check.
resolveValue_NoCanSet(res, f, m) ==
    LET envKey == f.env IN
    IF envKey = ""
    THEN [rawValue |-> <<>>, looked |-> {}]
    ELSE [rawValue |-> IF envKey \in DOMAIN m THEN m[envKey] ELSE f.default,
          looked |-> {envKey}]

\* resolveValue on a resolver whose field is f: rawValue is what it leaves in
\* resolver.rawValue (res.rawValue is what the previous field left there),
\* looked the set of keys it indexes envMap with.  envMap is a function from
\* the keys it holds to their values.
resolveValue(res, f, m) ==
    LET envKey == f.env IN
    IF envKey = "" \/ ~CanSet(f)
    THEN [rawValue |-> <<>>, looked |-> {}]
    ELSE [rawValue |-> IF envKey \in DOMAIN m THEN m[envKey] ELSE f.default,
          looked |-> {envKey}]

(***************************************************************************)
(* Inputs: the struct types, targets, records and source mappings the      *)
(* model explores.                                                         *)
(***************************************************************************)
Field(name, env, default, required, exported, type) ==
    [name |-> name, env |-> env, default |-> default, required |-> required,
     exported |-> exported, type |-> type]

Int8T == Scalar("int", 8, "", "int8")
Int16T == Scalar("int", 16, "", "int16")
Uint8T == Scalar("uint", 8, "", "uint8")
Uint16T == Scalar("uint", 16, "", "uint16")
DurationT == Scalar("int", 64, "time", "Duration")
MyStringT == Scalar("string", 0, "main", "MyString")
MyBoolT == Scalar("bool", 0, "main", "MyBool")
MyInt8T == Scalar("int", 8, "main", "MyInt8")
StructT == Scalar("struct", 0, "main", "Inner")
PtrT == Scalar("ptr", 0, "", "")

ScalarTypes ==
    {StringT, MyStringT, Int8T, Int16T, Int64T, MyInt8T, Uint8T, Uint16T, Uint64T,
     Float64T, BoolT, MyBoolT, DurationT, StructT, PtrT}

SliceTypes ==
    {SliceOf(e, "", "") : e \in {StringT, MyStringT, Int8T, Int64T, Uint8T, Float64T,
                                 BoolT, MyBoolT, StructT}}
        \cup {SliceOf(StringT, "main", "Tags")}

MapTypes ==
    {MapOf(StringT, e, "", "") : e \in {StringT, MyStringT, Int8T, Int64T, Uint8T,
                                        Float64T, BoolT, MyBoolT, StructT}}
        \cup {MapOf(MyStringT, StringT, "", ""), MapOf(Int64T, StringT, "", "")}

AllTypes == ScalarTypes \cup SliceTypes \cup MapTypes

\* The raw values a source mapping can hold for the key of a struct of one
\* field.
RawPool ==
    {<<>>, <<"1">>, <<"0">>, <<"x">>, <<"a", "b", "c">>, <<"4", "2">>,
     <<"1", "2", "7">>, <<"1", "2", "8">>, <<"-", "1", "2", "8">>,
     <<"-", "1", "2", "9">>, <<"2", "5", "5">>, <<"2", "5", "6">>,
     <<"-", "1">>, <<"+", "5">>, <<"4", "0", "0", "0", "0">>,
     <<"t", "r", "u", "e">>, <<"f", "a", "l", "s", "e">>, <<"y", "e", "s">>,
     <<"n", "o">>, <<"o", "n">>, <<"o", "f", "f">>,
     <<" ", "1", " ">>, <<"1", ".", "5">>, <<"5", "s">>,
     <<"1", ",", ",", "3", ",", "4">>, <<"1", ",", " ", ",", "3">>,
     <<"1", ",", ",", "x">>, <<"1", ",", "3", "0", "0">>, <<"1", ",", ",", "0">>,
     <<"a", ",", ",", "b">>, <<"t", "r", "u", "e", ",", "x">>,
     <<"k", ":", "v">>, <<"k", ":", "1">>, <<"k", ":", "2", "5", "6">>,
     <<"k", ":", "x">>, <<"k", ":", "t", "r", "u", "e">>,
     <<"a", ":", "b", ":", "c">>, <<"a", " ", ":", " ", "b", ":", "c">>,
     <<"k", ":", "v", ",">>, <<"k">>,
     <<"j", ":", "1", ",", "j", ":", "2", ",", "k", ":", "3">>}

\* The raw values a source mapping can hold for a key of a struct of several
\* fields.
FewRaw == {<<>>, <<"1">>, <<"x">>}

Defaults == {<<>>, <<"1">>}
FieldName(i) == <<"F1", "F2", "F3", "F4">>[i]
KeyName(i) == <<"K1", "K2", "K3", "K4">>[i]

\* The declarations of the field at position i with a type of types.
FieldsAt(i, types) ==
    {Field(FieldName(i), env, default, required, exported, type) :
        env \in {"", KeyName(i)}, default \in Defaults, required \in {"", "true"},
        exported \in BOOLEAN, type \in types}

\* The struct types of n fields, each of a type of types.
RECURSIVE StructsOfLen(_, _)
StructsOfLen(n, types) ==
    IF n = 0 THEN {<<>>}
    ELSE {Append(st, f) : st \in StructsOfLen(n - 1, types), f \in FieldsAt(n, types)}

\* Two keyed fields: one of a type the setters pass over or reject, then an
\* int8.
MixedStructs ==
    {<<Field(FieldName(1), KeyName(1), <<>>, "", TRUE, t),
       Field(FieldName(2), KeyName(2), d, "", TRUE, Int8T)>> :
        t \in {StructT, PtrT, SliceOf(StructT, "", ""), MapOf(Int64T, StringT, "", "")},
        d \in Defaults}

\* One field of any type, up to MaxFields fields of type int8, or a mixed
\* pair.
StructTypes ==
    StructsOfLen(1, AllTypes) \cup UNION {StructsOfLen(n, {Int8T}) : n \in 0..MaxFields}
        \cup MixedStructs

\* A value other than the zero value, for a record populated before the call.
PriorScalar(t) ==
    CASE t.kind = "string" -> <<"o", "l", "d">>
      [] t.kind \in {"int", "uint"} -> 7
      [] t.kind = "float" -> <<7, 0>>
      [] t.kind = "bool" -> TRUE
      [] OTHER -> "prior"

PriorValue(t) ==
    CASE t.kind = "slice" -> [nil |-> FALSE, elems |-> <<PriorScalar(t.elem)>>]
      [] t.kind = "map" -> [nil |-> FALSE, pairs |-> {<<<<"p">>, PriorScalar(t.elem)>>}]
      [] OTHER -> PriorScalar(t)

\* The source mappings offered to a struct type: every function from a set
\* of the keys its fields name to raw values.
KeysOf(st) == {st[k].env : k \in 1..Len(st)} \ {""}
RawFor(st) == IF Len(st) <= 1 THEN RawPool ELSE FewRaw
EnvMaps(st) == UNION {[ks -> RawFor(st)] : ks \in SUBSET KeysOf(st)}

\* What godotenv.Read returns: a map and no error, or an error with a map
\* that is empty or holds "1" for every key.
Reads(st) ==
    {[failed |-> FALSE, envMap |-> m] : m \in EnvMaps(st)}
        \cup {[failed |-> TRUE, envMap |-> m] : m \in {<<>>, [key \in KeysOf(st) |-> <<"1">>]}}

\* target: &config, config, &notStruct, nil, (*T)(nil).
Targets ==
    {[kind |-> "ptr", elem |-> "struct"], [kind |-> "struct", elem |-> "invalid"],
     [kind |-> "ptr", elem |-> "string"], [kind |-> "invalid", elem |-> "invalid"],
     [kind |-> "ptr", elem |-> "invalid"]}

\* The targets offered with a struct type: every kind with at most one
\* field, &config beyond.
TargetsFor(st) == IF Len(st) <= 1 THEN Targets ELSE {[kind |-> "ptr", elem |-> "struct"]}

ZeroField == Field("", "", <<>>, "", FALSE, Scalar("invalid", 0, "", ""))

(***************************************************************************)
(* State.                                                                  *)
(***************************************************************************)
VARIABLES
    typ,        \* the struct type of the caller's record: its fields in order
    rec,        \* the caller's record: rec[k] is the value of field k
    rec0,       \* the record as it was when populateStruct was called
    target,     \* the target argument of the call
    envMap,     \* the envMap argument of the call
    pc,         \* "idle", "loop" (in populateStruct's loop), "done", "panic"
    i,          \* the loop variable, counted from 1
    resolver,   \* populateStruct's resolver: [field, value, rawValue]
    err,        \* the error populateStruct returned
    written,    \* the fields a setter stored a value in during the call
    looked,     \* the keys envMap was indexed with during the call
    readErr     \* LoadAndParse: godotenv.Read returned an error

vars == <<typ, rec, rec0, target, envMap, pc, i, resolver, err, written, looked, readErr>>

Init ==
    /\ typ \in StructTypes
    /\ rec \in {[k \in 1..Len(typ) |-> ZeroValue(typ[k].type)],
                [k \in 1..Len(typ) |-> PriorValue(typ[k].type)]}
    /\ rec0 = rec
    /\ target = [kind |-> "invalid", elem |-> "invalid"]
    /\ envMap = <<>>
    /\ pc = "idle"
    /\ i = 0
    /\ resolver = [field |-> ZeroField, value |-> 0, rawValue |-> <<>>]
    /\ err = Nil
    /\ written = {}
    /\ looked = {}
    /\ readErr = FALSE

\* populateStruct(envMap, target) up to its loop: validateStruct, and the
\* declaration of the resolver.
PopulateStruct(m, tgt) ==
    /\ pc = "idle"
    /\ envMap' = m
    /\ target' = tgt
    /\ rec0' = rec
    /\ err' = validateStruct(tgt)
    /\ pc' = IF validateStruct(tgt) # Nil THEN "done" ELSE "loop"
    /\ i' = IF validateStruct(tgt) # Nil THEN 0 ELSE 1
    /\ resolver' = [field |-> ZeroField, value |-> 0, rawValue |-> <<>>]
    /\ UNCHANGED <<typ, rec, written, looked>>

\* One iteration of populateStruct's loop, for field i.
ProcessField ==
    /\ pc = "loop"
    /\ i <= Len(typ)
    /\ LET f == typ[i]
           res == resolveValue(resolver, f, envMap)
           rawValue == res.rawValue
           out == setValue(f, rawValue)
       IN  /\ resolver' = [field |-> f, value |-> i, rawValue |-> rawValue]
           /\ looked' = looked \cup res.looked
           /\ IF rawValue = <<>> /\ isRequired(f)
              THEN /\ err' = Err(errMissingRequiredField, f.name, f.env, -1, <<>>, <<>>, "")
                   /\ pc' = "done"
                   /\ UNCHANGED <<rec, written, i>>
              ELSE IF rawValue = <<>>
              THEN /\ i' = i + 1
                   /\ UNCHANGED <<rec, written, err, pc>>
              ELSE IF out.panic
              THEN /\ pc' = "panic"
                   /\ UNCHANGED <<rec, written, err, i>>
              ELSE IF out.err # Nil
              THEN /\ err' = out.err
                   /\ pc' = "done"
                   /\ rec' = IF out.set THEN [rec EXCEPT ![i] = out.val] ELSE rec
                   /\ written' = IF out.set THEN written \cup {i} ELSE written
                   /\ UNCHANGED i
              ELSE /\ rec' = IF out.set THEN [rec EXCEPT ![i] = out.val] ELSE rec
                   /\ written' = IF out.set THEN written \cup {i} ELSE written
                   /\ i' = i + 1
                   /\ UNCHANGED <<err, pc>>
    /\ UNCHANGED <<typ, rec0, target, envMap, readErr>>

\* The loop is over: populateStruct returns nil.
Return ==
    /\ pc = "loop"
    /\ i > Len(typ)
    /\ pc' = "done"
    /\ err' = Nil
    /\ UNCHANGED <<typ, rec, rec0, target, envMap, i, resolver, written, looked, readErr>>

\* LoadAndParse that hands populateStruct what godotenv.Read returned, also
\* when it returned an error.
LoadAndParse_KeepsReadMap(read, tgt) ==
    /\ readErr' = read.failed
    /\ PopulateStruct(read.envMap, tgt)

\* LoadAndParse(filePath, target), read being what godotenv.Read(filePath)
\* returns: on an error the warning is logged and an empty map is used.
LoadAndParse(read, tgt) ==
    /\ readErr' = read.failed
    /\ PopulateStruct(IF read.failed THEN <<>> ELSE read.envMap, tgt)

Next ==
    \/ \E read \in Reads(typ), tgt \in TargetsFor(typ) : LoadAndParse(read, tgt)
    \/ ProcessField
    \/ Return

Spec == Init /\ [][Next]_vars

(***************************************************************************)
(* Properties.  They are stated on the inputs (typ, target, envMap, rec0)  *)
(* and on what the call left (rec, err, resolver, written, looked), not    *)
(* with the operators that model the code.                                 *)
(***************************************************************************)
ValidTarget == target = [kind |-> "ptr", elem |-> "struct"]
Called == pc # "idle"
Returned == pc = "done"
Fields == 1..Len(typ)

\* Field k is the field the loop processed last.
Current(k) == Called /\ resolver.value = k

\* Field k has a source key and a writable slot.
Keyed(k) == typ[k].env # "" /\ typ[k].exported
Present(k) == typ[k].env \in DOMAIN envMap

\* The raw value field k is to resolve to.
RawOf(k) ==
    IF ~Keyed(k) THEN <<>>
    ELSE IF Present(k) THEN envMap[typ[k].env]
    ELSE typ[k].default

MissingRequired(k) ==
    /\ Returned
    /\ err.msg = errMissingRequiredField
    /\ err.field = typ[k].name
    /\ err.env = typ[k].env

\* s is a base-10 integer literal: an optional sign and at least one digit.
IsDecimal(s) ==
    /\ s # <<>>
    /\ LET body == IF s[1] \in {"+", "-"} THEN Tail(s) ELSE s IN
       body # <<>> /\ \A k \in 1..Len(body) : IsDigit(body[k])
DecimalOf(s) ==
    IF s[1] = "-" THEN -DecValue(Tail(s))
    ELSE IF s[1] = "+" THEN DecValue(Tail(s))
    ELSE DecValue(s)

\* t is an integer type of a width the model range-checks, time.Duration
\* aside; MinOf and MaxOf are the ends of its range.
SizedInt(t) == t.kind \in {"int", "uint"} /\ t.bits < 32 /\ t.pkg # "time"
MinOf(t) == IF t.kind = "uint" THEN 0 ELSE -(2 ^ (t.bits - 1))
MaxOf(t) == IF t.kind = "uint" THEN 2 ^ t.bits - 1 ELSE 2 ^ (t.bits - 1) - 1
InRange(v, t) == MinOf(t) <= v /\ v <= MaxOf(t)

\* C1: populateStruct checks the target before it looks at any field: a
\* target that is not a pointer returns "target must be a pointer", a
\* pointer to something other than a struct returns "target must be a
\* pointer to struct", and in both cases no field is written and envMap is
\* not indexed.
C1_TargetCheckedFirst ==
    /\ (Called /\ target.kind # "ptr") =>
          /\ Returned
          /\ err.msg = errTargetMustBePointer
          /\ rec = rec0 /\ written = {} /\ looked = {} /\ resolver.value = 0
    /\ (Called /\ target.kind = "ptr" /\ target.elem # "struct") =>
          /\ Returned
          /\ err.msg = errTargetMustBePointerToStruct
          /\ rec = rec0 /\ written = {} /\ looked = {} /\ resolver.value = 0

C1_Witness ==
    /\ Returned
    /\ target = [kind |-> "ptr", elem |-> "string"]
    /\ Len(typ) = 1 /\ Keyed(1) /\ Present(1) /\ envMap[typ[1].env] = <<"a", "b", "c">>
    /\ typ[1].type.kind = "string"
    /\ err.msg = errTargetMustBePointerToStruct

\* C2: for a writable field with a source key, the raw value resolved is the
\* value envMap holds for the key whenever the key is present, the empty
\* string included, and the default literal only when the key is absent.
C2_PresentBeatsDefault ==
    \A k \in Fields :
        (Current(k) /\ Keyed(k)) =>
            /\ Present(k) => resolver.rawValue = envMap[typ[k].env]
            /\ ~Present(k) => resolver.rawValue = typ[k].default

C2_Witness ==
    \E k \in Fields :
        /\ Current(k) /\ Keyed(k) /\ Present(k)
        /\ envMap[typ[k].env] = <<>>
        /\ typ[k].default # <<>>
        /\ resolver.rawValue = <<>>

\* C3: when a required field resolves to an empty raw value and has no
\* default, populateStruct returns the missing-required-field error naming
\* the field and its key, and no field declared after it is written, also
\* when envMap holds values for those fields.
C3_MissingRequiredStops ==
    \A k \in Fields :
        (Current(k) /\ typ[k].required = "true" /\ RawOf(k) = <<>>
            /\ typ[k].default = <<>>) =>
            /\ MissingRequired(k)
            /\ \A j \in Fields : j > k => rec[j] = rec0[j] /\ j \notin written

C3_Witness ==
    /\ Len(typ) = 2
    /\ Keyed(1) /\ typ[1].required = "true" /\ typ[1].default = <<>> /\ ~Present(1)
    /\ Keyed(2) /\ Present(2) /\ envMap[typ[2].env] = <<"1">>
    /\ rec0[2] = 0
    /\ MissingRequired(1)
    /\ rec[2] = 0

\* What the literal s denotes in a string, integer or bool type.
Denotes(t, s) ==
    CASE t.kind = "string" -> s
      [] t.kind \in {"int", "uint"} -> DecimalOf(s)
      [] t.kind = "bool" -> s \in {<<"1">>, <<"t">>, <<"t", "r", "u", "e">>}

\* C4: a required field with a source key, a writable slot and a non-empty
\* default, whose key is absent from envMap, does not fail the required
\* check, and after a successful populateStruct it holds what its default
\* literal denotes (for the string, integer and bool kinds).
C4_RequiredTakesDefault ==
    \A k \in Fields :
        (Called /\ Keyed(k) /\ typ[k].required = "true" /\ typ[k].default # <<>>
            /\ ~Present(k)) =>
            /\ ~MissingRequired(k)
            /\ (Returned /\ err = Nil /\ ValidTarget
                  /\ typ[k].type.kind \in {"string", "int", "uint", "bool"}) =>
                  /\ k \in written
                  /\ rec[k] = Denotes(typ[k].type, typ[k].default)

C4_Witness ==
    \E k \in Fields :
        /\ Keyed(k) /\ typ[k].required = "true" /\ typ[k].default = <<"1">>
        /\ ~Present(k)
        /\ Returned /\ err = Nil /\ ValidTarget
        /\ typ[k].type.kind = "int"
        /\ rec0[k] = 0 /\ rec[k] = 1

\* C5: a field that is required and declares a non-empty default never makes
\* populateStruct return the missing-required-field error, whatever envMap
\* holds (stated for the fields with a source key and a writable slot).
C5_RequiredWithDefaultNeverMissing ==
    \A k \in Fields :
        (Keyed(k) /\ typ[k].required = "true" /\ typ[k].default # <<>>) =>
            ~MissingRequired(k)

\* C6: a field without a source key, or whose slot is not writable, is never
\* written: it holds the value it had before the call, whatever envMap holds
\* and whatever default it declares, in every state of the call.
C6_UnkeyedUntouched ==
    \A k \in Fields :
        ~Keyed(k) => rec[k] = rec0[k] /\ k \notin written

C6_Witness ==
    /\ Len(typ) = 2
    /\ typ[1].env # "" /\ ~typ[1].exported /\ Present(1) /\ envMap[typ[1].env] = <<"1">>
    /\ typ[1].default = <<"1">>
    /\ typ[2].env = "" /\ typ[2].exported /\ typ[2].default = <<"1">>
    /\ Returned /\ err = Nil /\ ValidTarget
    /\ rec0 = <<0, 0>> /\ rec = <<0, 0>>

\* C7: a field without a source key, or whose slot is not writable, gets no
\* required check: populateStruct never returns the missing-required-field
\* error for it, also when it is marked required.
C7_UnkeyedNeverMissing ==
    \A k \in Fields :
        ~Keyed(k) => ~(Current(k) /\ MissingRequired(k))

\* The fields of typ are all of a range-checked signed integer type.
AllSizedInts == \A k \in Fields : typ[k].type.kind = "int" /\ SizedInt(typ[k].type)

\* Field k fails on its own: its required check, or the conversion of its
\* raw value to its signed integer type.
FailsAlone(k) ==
    \/ RawOf(k) = <<>> /\ typ[k].required = "true"
    \/ RawOf(k) # <<>>
        /\ ~(IsDecimal(RawOf(k)) /\ InRange(DecimalOf(RawOf(k)), typ[k].type))

\* What a field that did not fail holds after it was processed.
HeldAfter(k) == IF RawOf(k) = <<>> THEN rec0[k] ELSE DecimalOf(RawOf(k))

\* C8: populateStruct is fail-fast and does not roll back (stated for
\* structs of range-checked signed integer fields): it returns nil when no
\* field fails; otherwise the error is that of the first field, in
\* declaration order, whose required check or conversion fails, the fields
\* before it hold what this call wrote, and the fields after it are
\* unchanged.
C8_FailFastNoRollback ==
    (Returned /\ ValidTarget /\ AllSizedInts) =>
        LET failing == {k \in Fields : FailsAlone(k)} IN
        IF failing = {}
        THEN err = Nil /\ \A j \in Fields : rec[j] = HeldAfter(j)
        ELSE LET k == CHOOSE b \in failing : \A c \in failing : b <= c IN
             /\ err.field = typ[k].name
             /\ err.msg = IF RawOf(k) = <<>> THEN errMissingRequiredField
                          ELSE "invalid int for field"
             /\ resolver.value = k
             /\ \A j \in Fields : j < k => rec[j] = HeldAfter(j)
             /\ \A j \in Fields : j > k => rec[j] = rec0[j] /\ j \notin written

C8_Witness ==
    /\ Len(typ) = 2 /\ ValidTarget /\ AllSizedInts
    /\ RawOf(1) = <<"1">> /\ rec0[1] = 0 /\ rec[1] = 1 /\ 1 \in written
    /\ RawOf(2) = <<"x">>
    /\ Returned /\ err.msg = "invalid int for field" /\ err.field = typ[2].name

\* C9: every call of populateStruct ends by returning nil or an error; none
\* ends in a panic.
C9_NeverPanics == pc # "panic"

\* C10: a scalar integer field of N bits is only ever written a value of the
\* range of N bits; a base-10 literal outside the range makes populateStruct
\* return the invalid-int or invalid-uint error and leaves the field as it
\* was.
C10_NoWrapAround ==
    \A k \in Fields :
        SizedInt(typ[k].type) =>
            /\ k \in written => InRange(rec[k], typ[k].type)
            /\ (Current(k) /\ IsDecimal(RawOf(k))
                  /\ ~InRange(DecimalOf(RawOf(k)), typ[k].type)) =>
                  /\ Returned
                  /\ err.msg = IF typ[k].type.kind = "int" THEN "invalid int for field"
                               ELSE "invalid uint for field"
                  /\ err.field = typ[k].name
                  /\ rec[k] = rec0[k] /\ k \notin written

C10_Witness ==
    /\ Len(typ) = 1 /\ ValidTarget
    /\ typ[1].type = Int8T
    /\ RawOf(1) = <<"2", "5", "6">>
    /\ rec0[1] = 7 /\ rec[1] = 7
    /\ Returned /\ err.msg = "invalid int for field" /\ err.cause = ErrRange

(***************************************************************************)
(* Properties of the slice and map setters.  The pieces of a raw value are *)
(* found here by the positions of its commas and colons.                   *)
(***************************************************************************)
\* The j-th smallest element of a set of numbers, j counted from 0.
Nth(S, j) == CHOOSE c \in S : Cardinality({d \in S : d < c}) = j

\* The pieces of s between its commas, in order.
PiecesOf(s) ==
    LET cuts == {k \in 1..Len(s) : s[k] = ","} \cup {0, Len(s) + 1}
    IN  [j \in 1..(Cardinality(cuts) - 1) |->
            SubSeq(s, Nth(cuts, j - 1) + 1, Nth(cuts, j) - 1)]

\* p without the white space around it.
Stripped(p) ==
    LET ink == {k \in 1..Len(p) : ~IsSpace(p[k])} IN
    IF ink = {} THEN <<>>
    ELSE SubSeq(p, Nth(ink, 0), Nth(ink, Cardinality(ink) - 1))

StrippedPieces(s) == [j \in 1..Len(PiecesOf(s)) |-> Stripped(PiecesOf(s)[j])]

\* The pieces of s that are not empty once stripped.
Retained(s) == SelectSeq(StrippedPieces(s), LAMBDA p : p # <<>>)

\* The literals Go reads as true and as false.
TrueLits ==
    {<<"1">>, <<"t">>, <<"T">>, <<"t", "r", "u", "e">>, <<"T", "r", "u", "e">>,
     <<"T", "R", "U", "E">>}
FalseLits ==
    {<<"0">>, <<"f">>, <<"F">>, <<"f", "a", "l", "s", "e">>,
     <<"F", "a", "l", "s", "e">>, <<"F", "A", "L", "S", "E">>}
AllDigits(p) == p # <<>> /\ \A k \in 1..Len(p) : IsDigit(p[k])

\* p is a literal of the element type t the properties know the value of,
\* and ElemOf is that value.
ElemValid(t, p) ==
    CASE t.kind = "int" -> IsDecimal(p) /\ (SizedInt(t) => InRange(DecimalOf(p), t))
      [] t.kind = "uint" -> AllDigits(p) /\ (SizedInt(t) => InRange(DecimalOf(p), t))
      [] t.kind = "float" -> IsDecimal(p)
      [] t.kind = "bool" -> p \in TrueLits \cup FalseLits
      [] OTHER -> FALSE
ElemOf(t, p) ==
    CASE t.kind \in {"int", "uint"} -> DecimalOf(p)
      [] t.kind = "float" -> <<DecimalOf(p), 0>>
      [] t.kind = "bool" -> p \in TrueLits

IsSliceOf(k, kinds) == typ[k].type.kind = "slice" /\ typ[k].type.elem.kind \in kinds

\* C11: for a slice field with integer, unsigned, float or bool elements the
\* slice stored is the sequence, in order, of the values of the
\* comma-separated parts that are not empty once trimmed, and has their
\* number as length: "1,,3,4" gives [1,3,4] and "1, ,3" gives [1,3].
C11_SliceOfRetainedParts ==
    \A k \in Fields :
        (Current(k) /\ Keyed(k) /\ IsSliceOf(k, {"int", "uint", "float", "bool"})
            /\ RawOf(k) # <<>>
            /\ \A j \in 1..Len(Retained(RawOf(k))) :
                  ElemValid(typ[k].type.elem, Retained(RawOf(k))[j])) =>
            /\ pc # "panic" /\ err = Nil
            /\ k \in written
            /\ ~rec[k].nil
            /\ Len(rec[k].elems) = Len(Retained(RawOf(k)))
            /\ \A j \in 1..Len(Retained(RawOf(k))) :
                  rec[k].elems[j] = ElemOf(typ[k].type.elem, Retained(RawOf(k))[j])
            /\ (RawOf(k) = <<"1", ",", ",", "3", ",", "4">> /\ IsSliceOf(k, {"int", "uint"}))
                  => rec[k].elems = <<1, 3, 4>>
            /\ (RawOf(k) = <<"1", ",", " ", ",", "3">> /\ IsSliceOf(k, {"int", "uint"}))
                  => rec[k].elems = <<1, 3>>

C11_Witness ==
    /\ Len(typ) = 1 /\ Keyed(1) /\ Current(1)
    /\ typ[1].type = SliceOf(Int64T, "", "")
    /\ RawOf(1) = <<"1", ",", ",", "3", ",", "4">>
    /\ rec0[1].nil
    /\ rec[1] = [nil |-> FALSE, elems |-> <<1, 3, 4>>]
    /\ Returned /\ err = Nil

\* C12: for a slice-of-string field the parts that are empty after trimming
\* are dropped too: the slice stored has no empty-string element and is the
\* sequence of the retained parts ("frontend,,backend,mobile" gives three).
C12_StringSliceDropsEmpty ==
    \A k \in Fields :
        (Current(k) /\ Keyed(k) /\ IsSliceOf(k, {"string"}) /\ k \in written) =>
            /\ \A j \in 1..Len(rec[k].elems) : rec[k].elems[j] # <<>>
            /\ rec[k].elems = Retained(RawOf(k))

\* The key and the value a pair token denotes: what is before and after its
\* first colon, stripped.
HasColon(tok) == \E k \in 1..Len(tok) : tok[k] = ":"
FirstColon(tok) == Nth({k \in 1..Len(tok) : tok[k] = ":"}, 0)
PairKey(tok) == Stripped(SubSeq(Stripped(tok), 1, FirstColon(Stripped(tok)) - 1))
PairVal(tok) ==
    Stripped(SubSeq(Stripped(tok), FirstColon(Stripped(tok)) + 1, Len(Stripped(tok))))

\* The last pair token of s, left to right, whose key is key.
LastPairFor(s, key) ==
    PiecesOf(s)[Nth({j \in 1..Len(PiecesOf(s)) : PairKey(PiecesOf(s)[j]) = key},
                    Cardinality({j \in 1..Len(PiecesOf(s)) : PairKey(PiecesOf(s)[j]) = key}) - 1)]

\* The value of type t a value literal denotes, where the properties know it.
MapValValid(t, p) == t.kind = "string" \/ ElemValid(t, p)
MapValOf(t, p) == IF t.kind = "string" THEN p ELSE ElemOf(t, p)

\* The map types with predeclared key and value types the setter supports.
PlainMap(k) ==
    /\ typ[k].type.kind = "map"
    /\ typ[k].type.key = StringT
    /\ typ[k].type.elem \in {StringT, Int8T, Int64T, Uint8T, Float64T, BoolT}

WellFormedPairs(s) ==
    \A j \in 1..Len(PiecesOf(s)) :
        HasColon(PiecesOf(s)[j])

\* C13: for a map field with string keys whose raw value has several pair
\* tokens with the same trimmed key, populate does not fail and the map holds
\* for each key the value of the last pair with that key, left to right:
\* "j:1,j:2,k:3" gives j -> "2", k -> "3".
C13_DuplicateKeyLastWins ==
    \A k \in Fields :
        (Current(k) /\ Keyed(k) /\ PlainMap(k) /\ RawOf(k) # <<>>
            /\ WellFormedPairs(RawOf(k))
            /\ \A j \in 1..Len(PiecesOf(RawOf(k))) :
                  MapValValid(typ[k].type.elem, PairVal(PiecesOf(RawOf(k))[j]))) =>
            /\ pc # "panic" /\ err = Nil
            /\ k \in written
            /\ rec[k].pairs =
                  {<<PairKey(PiecesOf(RawOf(k))[j]),
                     MapValOf(typ[k].type.elem,
                              PairVal(LastPairFor(RawOf(k), PairKey(PiecesOf(RawOf(k))[j]))))>> :
                      j \in 1..Len(PiecesOf(RawOf(k)))}
            /\ (RawOf(k) = <<"j", ":", "1", ",", "j", ":", "2", ",", "k", ":", "3">>
                    /\ typ[k].type.elem = StringT)
                  => rec[k].pairs = {<<<<"j">>, <<"2">>>>, <<<<"k">>, <<"3">>>>}

C13_Witness ==
    /\ Len(typ) = 1 /\ Keyed(1) /\ Current(1)
    /\ typ[1].type = MapOf(StringT, Int64T, "", "")
    /\ RawOf(1) = <<"j", ":", "1", ",", "j", ":", "2", ",", "k", ":", "3">>
    /\ rec[1].pairs = {<<<<"j">>, 2>>, <<<<"k">>, 3>>}
    /\ Returned /\ err = Nil

\* Field k is a map with keys of kind string and a raw value of which some
\* pair token has no colon; FirstMalformed is the index of the first such
\* token, left to right.
MalformedMap(k) ==
    /\ Current(k) /\ Keyed(k)
    /\ typ[k].type.kind = "map" /\ typ[k].type.key.kind = "string"
    /\ RawOf(k) # <<>>
    /\ ~WellFormedPairs(RawOf(k))
FirstMalformed(s) == Nth({j \in 1..Len(PiecesOf(s)) : ~HasColon(PiecesOf(s)[j])}, 0)

\* A pair token the properties know the setter stores in field k, and one
\* they know it cannot convert.
Storable(k, tok) ==
    HasColon(tok) /\ PlainMap(k) /\ MapValValid(typ[k].type.elem, PairVal(tok))
Inconvertible(k, tok) ==
    /\ HasColon(tok)
    /\ CASE typ[k].type.elem.kind = "int" -> ~IsDecimal(PairVal(tok))
         [] typ[k].type.elem.kind = "uint" -> ~AllDigits(PairVal(tok))
         [] typ[k].type.elem.kind = "bool" -> PairVal(tok) \notin TrueLits \cup FalseLits
         [] OTHER -> FALSE

\* C14 as stated: for a map field with string keys (predeclared key and value
\* types), every pair token without a colon makes populate fail with the
\* invalid-map-format error naming the field and such a token, the map left
\* unchanged.
C14_AnyMalformedPairIsFormatError ==
    \A k \in Fields :
        (MalformedMap(k) /\ PlainMap(k)) =>
            /\ err.msg = errInvalidMapFormat
            /\ err.field = typ[k].name
            /\ \E j \in 1..Len(PiecesOf(RawOf(k))) :
                  ~HasColon(PiecesOf(RawOf(k))[j]) /\ err.token = PiecesOf(RawOf(k))[j]
            /\ rec[k] = rec0[k]

\* C14, amended: when some pair token of a map field with string keys has no
\* colon, populate does not succeed and leaves the map unchanged; the pairs
\* are taken left to right and populate stops at the first it cannot store.
\* It returns the invalid-map-format error, naming the field and the first
\* token without a colon as written (not trimmed), when every token before
\* that one can be stored, and the invalid-map-value error of an earlier
\* token when that one's value cannot be converted.
C14_FirstBadPairDecides ==
    \A k \in Fields :
        MalformedMap(k) =>
            LET toks == PiecesOf(RawOf(k))
                bad == FirstMalformed(RawOf(k))
            IN  /\ rec[k] = rec0[k]
                /\ k \notin written
                /\ pc = "panic" \/ (pc = "done" /\ err # Nil)
                /\ (\A j \in 1..(bad - 1) : Storable(k, toks[j])) =>
                      /\ pc = "done"
                      /\ err.msg = errInvalidMapFormat
                      /\ err.field = typ[k].name
                      /\ err.token = toks[bad]
                /\ \A j \in 1..(bad - 1) :
                      (Inconvertible(k, toks[j]) /\ PlainMap(k)
                          /\ \A h \in 1..(j - 1) : Storable(k, toks[h])) =>
                            /\ pc = "done"
                            /\ err.msg = "invalid map value for field"
                            /\ err.field = typ[k].name
                            /\ err.key = PairKey(toks[j])

C14_Witness ==
    /\ Len(typ) = 1 /\ MalformedMap(1)
    /\ typ[1].type = MapOf(StringT, StringT, "", "")
    /\ RawOf(1) = <<"k", ":", "v", ",">>
    /\ Returned
    /\ err.msg = errInvalidMapFormat /\ err.field = typ[1].name /\ err.token = <<>>
    /\ rec[1] = rec0[1] /\ ~rec0[1].nil

(***************************************************************************)
(* Properties of the types the setters do not support.                     *)
(***************************************************************************)
SupportedKinds == {"string", "int", "uint", "float", "bool", "slice", "map"}
ElemKinds == {"string", "int", "uint", "float", "bool"}

\* Field k is writable, has a source key and a non-empty raw value, and is of
\* a kind no setter handles, a slice of such elements, or a map whose keys
\* are not strings.
UnsupportedWithValue(k) ==
    /\ Keyed(k) /\ RawOf(k) # <<>>
    /\ \/ typ[k].type.kind \notin SupportedKinds
       \/ typ[k].type.kind = "slice" /\ typ[k].type.elem.kind \notin ElemKinds
       \/ typ[k].type.kind = "map" /\ typ[k].type.key.kind # "string"

\* C15: a writable field with a source key and a non-empty raw value whose
\* type is not supported is skipped silently: populate reports no error for
\* it, leaves it unchanged and continues with the next field.
C15_UnsupportedSkipped ==
    \A k \in Fields :
        (Called /\ resolver.value >= k /\ UnsupportedWithValue(k)) =>
            /\ rec[k] = rec0[k]
            /\ k \notin written
            /\ Current(k) => (err = Nil /\ pc \in {"loop", "done"} /\ i = k + 1)

C15_Witness ==
    /\ typ \in MixedStructs /\ typ[1].type = StructT
    /\ RawOf(1) = <<"x">> /\ RawOf(2) = <<"1">>
    /\ Current(2) /\ Returned /\ err = Nil
    /\ rec[1] = rec0[1] /\ written = {2} /\ rec[2] = 1 /\ rec0[2] = 7

\* Field k is a map with keys of kind string and values of a kind that is
\* not string, integer, unsigned, float or bool, and has a non-empty raw
\* value.
UnsupportedMapValue(k) ==
    /\ Current(k) /\ Keyed(k) /\ RawOf(k) # <<>>
    /\ typ[k].type.kind = "map" /\ typ[k].type.key.kind = "string"
    /\ typ[k].type.elem.kind \notin ElemKinds

\* C16 as stated: such a map field with a well-formed raw value is not a
\* failure: populate returns no error for it and skips it silently.
C16_UnsupportedMapValueSkipped ==
    \A k \in Fields :
        (UnsupportedMapValue(k) /\ WellFormedPairs(RawOf(k))) =>
            err = Nil /\ rec[k] = rec0[k] /\ k \notin written

\* C16, amended: such a map field is a failure: with a non-empty raw value
\* whose first pair token has a colon, populate stops with the
\* invalid-map-value error naming the field and the key of that first pair
\* and wrapping the unsupported-map-value-type error; the field is left
\* unchanged.
C16_UnsupportedMapValueFails ==
    \A k \in Fields :
        UnsupportedMapValue(k) =>
            /\ rec[k] = rec0[k] /\ k \notin written
            /\ pc = "done" /\ err # Nil /\ err.field = typ[k].name
            /\ HasColon(PiecesOf(RawOf(k))[1]) =>
                  /\ err.msg = "invalid map value for field"
                  /\ err.key = PairKey(PiecesOf(RawOf(k))[1])
                  /\ err.cause = errUnsupportedMapValueType

C16_Witness ==
    /\ Len(typ) = 1 /\ UnsupportedMapValue(1)
    /\ typ[1].type = MapOf(StringT, StructT, "", "")
    /\ RawOf(1) = <<"k", ":", "v">>
    /\ Returned
    /\ err.msg = "invalid map value for field" /\ err.key = <<"k">>
    /\ err.cause = errUnsupportedMapValueType
    /\ rec[1] = rec0[1]

(***************************************************************************)
(* Properties of the boolean setter.                                       *)
(***************************************************************************)
DocTrue == {<<"t", "r", "u", "e">>, <<"1">>, <<"y", "e", "s">>, <<"o", "n">>}
DocFalse == {<<"f", "a", "l", "s", "e">>, <<"0">>, <<"n", "o">>, <<"o", "f", "f">>}

\* C17: a boolean field accepts true/false, 1/0, yes/no and on/off: for each
\* of these raw values populate succeeds and stores true for true, 1, yes
\* and on, false for false, 0, no and off.
C17_BoolAcceptsDocumentedLiterals ==
    \A k \in Fields :
        (Current(k) /\ Keyed(k) /\ typ[k].type = BoolT
            /\ RawOf(k) \in DocTrue \cup DocFalse) =>
            /\ err = Nil
            /\ k \in written
            /\ rec[k] = (RawOf(k) \in DocTrue)

(***************************************************************************)
(* Properties of LoadAndParse.                                             *)
(***************************************************************************)
\* Field k is of a string, integer, float or bool type its default literal
\* "1" converts to.
TakesOne(k) ==
    /\ typ[k].type.kind \in {"string", "int", "uint", "float", "bool"}
    /\ typ[k].type # DurationT
OneIn(t) ==
    CASE t.kind = "string" -> <<"1">>
      [] t.kind \in {"int", "uint"} -> 1
      [] t.kind = "float" -> <<1, 0>>
      [] t.kind = "bool" -> TRUE

\* C18: when reading the file fails, LoadAndParse does not return the read
\* failure: it calls populateStruct with an empty map and returns what that
\* returns, so every keyed writable field is set from its default or left
\* unchanged, and a required field without a non-empty default still gives
\* the missing-required-field error.
C18_ReadFailureUsesDefaults ==
    (Called /\ readErr) =>
        /\ envMap = <<>>
        /\ \A k \in Fields : k \in written => Keyed(k) /\ typ[k].default # <<>>
        /\ \A k \in Fields :
              (Current(k) /\ Keyed(k)) =>
                  /\ (typ[k].default = <<>> /\ typ[k].required = "true") =>
                        MissingRequired(k) /\ rec[k] = rec0[k]
                  /\ (typ[k].default = <<>> /\ typ[k].required # "true") =>
                        err = Nil /\ rec[k] = rec0[k]
                  /\ (typ[k].default = <<"1">> /\ TakesOne(k)) =>
                        err = Nil /\ k \in written /\ rec[k] = OneIn(typ[k].type)
        /\ (Returned /\ ValidTarget
              /\ \A k \in Fields :
                    /\ Keyed(k) /\ TakesOne(k)
                    /\ typ[k].default = <<"1">> \/ typ[k].required # "true") =>
              err = Nil

C18_Witness ==
    /\ readErr /\ Returned /\ err = Nil /\ ValidTarget
    /\ Len(typ) = 2 /\ Keyed(1) /\ Keyed(2)
    /\ typ[1].default = <<"1">> /\ typ[1].required = "true"
    /\ typ[2].default = <<>> /\ typ[2].required = ""
    /\ rec0 = <<7, 7>> /\ rec = <<1, 7>>

(***************************************************************************)
(* Properties of the skip of empty values.                                 *)
(***************************************************************************)
\* C20: when a field that is not required resolves to the empty raw value
\* (key absent with no default, or key present with an empty value), no
\* conversion and no write is made for it: it keeps the value it had at the
\* start of the call, a non-zero one included, and populateStruct goes on
\* with the next field.
C20_EmptyOptionalKept ==
    \A k \in Fields :
        (Called /\ resolver.value >= k /\ typ[k].required # "true" /\ RawOf(k) = <<>>) =>
            /\ rec[k] = rec0[k]
            /\ k \notin written
            /\ Current(k) =>
                  /\ resolver.rawValue = <<>>
                  /\ err = Nil /\ pc \in {"loop", "done"} /\ i = k + 1

C20_Witness ==
    /\ Len(typ) = 2 /\ Keyed(1) /\ Keyed(2)
    /\ typ[1].required = "" /\ typ[1].default = <<"1">>
    /\ Present(1) /\ envMap[typ[1].env] = <<>>
    /\ RawOf(2) = <<"1">>
    /\ Current(2) /\ Returned /\ err = Nil
    /\ rec0 = <<7, 7>> /\ rec = <<7, 1>> /\ written = {2}

(***************************************************************************)
(* Properties of the errors of the slice and map setters.                  *)
(***************************************************************************)
\* p is not a literal of the element type t.  A float literal starts with a
\* digit, a sign, a point, or the first letter of inf or nan; the floats
\* that start so are left undecided.
ElemInvalid(t, p) ==
    CASE t.kind \in {"int", "uint", "bool"} -> ~ElemValid(t, p)
      [] t.kind = "float" ->
            ~(IsDigit(p[1]) \/ p[1] \in {"+", "-", ".", "i", "I", "n", "N"})
      [] OTHER -> FALSE

\* The message of the element error of each element kind.
SliceErrorOf(t) ==
    CASE t.kind = "int" -> "invalid int in slice for field"
      [] t.kind = "uint" -> "invalid uint in slice for field"
      [] t.kind = "float" -> "invalid float in slice for field"
      [] t.kind = "bool" -> "invalid bool in slice for field"

\* C21: when an element of a numeric or bool slice fails to parse, the index
\* in the error is the position of the failing part among the parts retained
\* (not empty after trimming), counted from 0, not its position among all the
\* parts: "1,,x" into an integer slice reports index 1.
C21_IndexAmongRetained ==
    \A k \in Fields :
        (Current(k) /\ Keyed(k) /\ IsSliceOf(k, {"int", "uint", "float", "bool"})
            /\ RawOf(k) # <<>>) =>
            LET kept == Retained(RawOf(k))
                elem == typ[k].type.elem
            IN  \A j \in 1..Len(kept) :
                    (ElemInvalid(elem, kept[j])
                        /\ \A h \in 1..(j - 1) : ElemValid(elem, kept[h])) =>
                        /\ Returned
                        /\ err.msg = SliceErrorOf(elem)
                        /\ err.field = typ[k].name
                        /\ err.index = j - 1

C21_Witness ==
    /\ Len(typ) = 1 /\ Keyed(1) /\ Current(1)
    /\ typ[1].type = SliceOf(Int64T, "", "")
    /\ RawOf(1) = <<"1", ",", ",", "x">>
    /\ Returned /\ err.msg = "invalid int in slice for field" /\ err.index = 1
    /\ rec[1] = rec0[1]

\* The number of colons of a pair token.
Colons(tok) == Cardinality({k \in 1..Len(tok) : tok[k] = ":"})

\* C22: a map pair token is split on its first colon only: the key is the
\* trimmed text before it and the value the trimmed text of all that follows,
\* further colons included.  A token with several colons is never a format
\* error, and in a string-valued map "a:b:c" gives key "a" with value "b:c".
C22_SplitOnFirstColon ==
    \A k \in Fields :
        (Current(k) /\ Keyed(k) /\ RawOf(k) # <<>> /\ typ[k].type.kind = "map"
            /\ typ[k].type.key.kind = "string"
            /\ Colons(PiecesOf(RawOf(k))[1]) >= 2) =>
            /\ err.msg # errInvalidMapFormat
                  \/ err.token # PiecesOf(RawOf(k))[1]
            /\ err.msg = "invalid map value for field" => err.key = PairKey(PiecesOf(RawOf(k))[1])
            /\ (typ[k].type.key = StringT /\ typ[k].type.elem = StringT
                  /\ Len(PiecesOf(RawOf(k))) = 1) =>
                  /\ err = Nil /\ k \in written
                  /\ rec[k].pairs =
                        {<<PairKey(PiecesOf(RawOf(k))[1]), PairVal(PiecesOf(RawOf(k))[1])>>}
                  /\ \E p \in rec[k].pairs : \E h \in 1..Len(p[2]) : p[2][h] = ":"
            /\ (typ[k].type.key = StringT /\ typ[k].type.elem = StringT
                  /\ RawOf(k) = <<"a", ":", "b", ":", "c">>) =>
                  rec[k].pairs = {<<<<"a">>, <<"b", ":", "c">>>>}

C22_Witness ==
    /\ Len(typ) = 1 /\ Keyed(1) /\ Current(1)
    /\ typ[1].type = MapOf(StringT, StringT, "", "")
    /\ RawOf(1) = <<"a", ":", "b", ":", "c">>
    /\ Returned /\ err = Nil
    /\ rec[1] = [nil |-> FALSE, pairs |-> {<<<<"a">>, <<"b", ":", "c">>>>}]

\* C23: writes are atomic per field: when the conversion of a field fails (a
\* scalar that does not parse, a slice element failing at any index, a
\* malformed map pair or a map value failing at any pair), the field holds
\* the value it had before the call; a slice or a map is never left with a
\* partly built result.
C23_FailedFieldUnchanged ==
    \A k \in Fields :
        (Current(k) /\ (pc = "panic" \/ (Returned /\ err # Nil))) =>
            /\ rec[k] = rec0[k]
            /\ k \notin written

C23_Witness ==
    /\ Len(typ) = 1 /\ Keyed(1) /\ Current(1)
    /\ typ[1].type = SliceOf(Int64T, "", "")
    /\ RawOf(1) = <<"1", ",", ",", "x">>
    /\ Returned /\ err # Nil /\ err.index = 1
    /\ rec0[1] = [nil |-> FALSE, elems |-> <<7>>]
    /\ rec[1] = [nil |-> FALSE, elems |-> <<7>>]

\* C24: in a map from string to an integer type of fewer than 64 bits, a
\* value literal outside the range of the type (256 for an 8-bit type) makes
\* populateStruct fail with the per-value error naming the field and the
\* key, and every value stored is the integer its literal denotes, never
\* that integer modulo 2^N.
C24_MapValueNoWrapAround ==
    \A k \in Fields :
        (Current(k) /\ Keyed(k) /\ RawOf(k) # <<>> /\ typ[k].type.kind = "map"
            /\ typ[k].type.key = StringT /\ SizedInt(typ[k].type.elem)
            /\ WellFormedPairs(RawOf(k))
            /\ \A j \in 1..Len(PiecesOf(RawOf(k))) : IsDecimal(PairVal(PiecesOf(RawOf(k))[j]))) =>
            /\ k \in written =>
                  \A p \in rec[k].pairs :
                      \E j \in 1..Len(PiecesOf(RawOf(k))) :
                          /\ p[1] = PairKey(PiecesOf(RawOf(k))[j])
                          /\ p[2] = DecimalOf(PairVal(PiecesOf(RawOf(k))[j]))
            /\ ~InRange(DecimalOf(PairVal(PiecesOf(RawOf(k))[1])), typ[k].type.elem) =>
                  /\ Returned /\ k \notin written
                  /\ err.msg = "invalid map value for field"
                  /\ err.field = typ[k].name
                  /\ err.key = PairKey(PiecesOf(RawOf(k))[1])

(***************************************************************************)
(* Properties of the resolver shared by the fields of a call.              *)
(***************************************************************************)
\* C25: the one resolver serves every field of a call, but the raw value of
\* a field never carries over to another: at the required check and at the
\* conversion of a field the raw value is the one resolved for that field
\* alone, so a field skipped for lack of a source key or of a writable slot
\* is not converted from the raw value of an earlier field.
C25_RawValueNotCarriedOver ==
    \A k \in Fields :
        Current(k) =>
            /\ resolver.field = typ[k]
            /\ resolver.rawValue = RawOf(k)
            /\ ~Keyed(k) =>
                  /\ resolver.rawValue = <<>>
                  /\ rec[k] = rec0[k] /\ k \notin written
                  /\ (typ[k].required # "true") => err = Nil

C25_Witness ==
    /\ Len(typ) = 2 /\ Keyed(1) /\ RawOf(1) = <<"1">>
    /\ typ[2].env = "" /\ typ[2].exported /\ typ[2].required = ""
    /\ Current(2) /\ Returned /\ err = Nil
    /\ resolver.rawValue = <<>>
    /\ rec0 = <<7, 7>> /\ rec = <<1, 7>> /\ written = {1}

====
